---- MODULE Spec2Model ----
(***************************************************************************)
(* The scrape pipeline of src/index.js: KeywordValidator, AmazonUrlBuilder, *)
(* AmazonHttpClient.fetchHtml (one axios.get per attempt, the 503 retry     *)
(* loop), AmazonHtmlParser.parse, Cache and AmazonScraperService.scrape.    *)
(* Strings are sequences of one-character strings; JavaScript values are    *)
(* tagged records so that null, undefined, "" and [] stay distinct.         *)
(***************************************************************************)
EXTENDS Integers, Sequences, FiniteSets, TLC

VARIABLES
  now,               \* Date.now(), in milliseconds
  ticks,             \* number of clock advances taken so far
  store,             \* Cache.store: a Map from key to {value, expiry}
  calls,             \* number of scrape calls started so far
  fetchCount,        \* number of fetchHtml calls issued so far
  lookups,           \* number of Cache.get calls made so far
  storedAt,          \* per key in the store: when its entry was set
  pc,                \* per call: idle, Attempting, RetryWait, Success, Failed, done
  keyword,           \* scrape's argument
  validatedKeyword,  \* scrape's local validatedKeyword
  url,               \* scrape's local url
  attempt,           \* fetchHtml's local attempt
  redirects,         \* redirects followed inside the current axios.get
  wakeAt,            \* the time the pending setTimeout is due
  html,              \* what fetchHtml resolved with (response.data)
  error,             \* the error the call threw, or NoError
  result,            \* what scrape returned
  gets,              \* axios.get calls issued by this call's fetchHtml
  requests,          \* HTTP requests sent by this call (redirect hops included)
  waits,             \* the delays this call handed to setTimeout, in order
  log,               \* the HTTP responses / transport errors this call received
  vin,               \* input of a function applied on its own
  vout,              \* its outcome
  query,             \* per request: req.query.keyword
  response           \* per request: the status and body sent, or NoResponse

vars == <<now, ticks, store, calls, fetchCount, lookups, storedAt, pc, keyword, validatedKeyword,
          url, attempt, redirects, wakeAt, html, error, result, gets, requests,
          waits, log, vin, vout, query, response>>

------------------------------------------------------------------------------
(* Bounds of the model *)

MaxCalls == 2
MaxTicks == 2
MaxLen == 2
MaxItems == 22

Procs == {1, 2}

------------------------------------------------------------------------------
(* Program constants *)

MAX_KEYWORD_LENGTH == 50
CACHE_TTL_MS == 5 * 60 * 1000
maxRetries == 3
retryDelay == 1000
maxRedirects == 5
sliceEnd == 20

------------------------------------------------------------------------------
(* JavaScript values *)

Null == [t |-> "null"]
Undefined == [t |-> "undefined"]
Str(s) == [t |-> "string", v |-> s]
Arr(s) == [t |-> "array", v |-> s]

\* Faulty variant of Truthy: the empty array taken for falsy.
TruthyEmptyArrayFalsy(x) ==
  CASE x.t = "null" -> FALSE
    [] x.t = "undefined" -> FALSE
    [] x.t = "string" -> Len(x.v) > 0
    [] x.t = "array" -> Len(x.v) > 0

\* ToBoolean: null, undefined and "" are falsy; every array (also []) is truthy.
Truthy(x) ==
  CASE x.t = "null" -> FALSE
    [] x.t = "undefined" -> FALSE
    [] x.t = "string" -> Len(x.v) > 0
    [] x.t = "array" -> TRUE

Max(a, b) == IF a >= b THEN a ELSE b
Min(a, b) == IF a <= b THEN a ELSE b

------------------------------------------------------------------------------
(* Characters and strings *)

\* \w of KEYWORD_REGEX: [A-Za-z0-9_]
WordChars ==
  {"a","b","c","d","e","f","g","h","i","j","k","l","m","n","o","p","q","r","s",
   "t","u","v","w","x","y","z","A","B","C","D","E","F","G","H","I","J","K","L",
   "M","N","O","P","Q","R","S","T","U","V","W","X","Y","Z","0","1","2","3","4",
   "5","6","7","8","9","_"}

\* \s of KEYWORD_REGEX, which is also what String.prototype.trim strips
WhiteSpace == {" ", "\t", "\n", "\r", "\f"}

\* /^[\w\s-]+$/.test(s)
KEYWORD_REGEX(s) ==
  /\ Len(s) >= 1
  /\ \A i \in 1..Len(s) : s[i] \in WordChars \cup WhiteSpace \cup {"-"}

RECURSIVE trimStart(_)
trimStart(s) ==
  IF Len(s) = 0 THEN s
  ELSE IF s[1] \in WhiteSpace THEN trimStart(Tail(s)) ELSE s

RECURSIVE trimEnd(_)
trimEnd(s) ==
  IF Len(s) = 0 THEN s
  ELSE IF s[Len(s)] \in WhiteSpace THEN trimEnd(SubSeq(s, 1, Len(s) - 1)) ELSE s

\* String.prototype.trim
trim(s) == trimEnd(trimStart(s))

------------------------------------------------------------------------------
(* KeywordValidator.validate: [ok |-> TRUE, value] or [ok |-> FALSE, message] *)

Thrown(name, message) == [name |-> name, message |-> message]
NoError == Thrown("none", "")

\* Faulty variant of validate: the accepted keyword returned untrimmed.
validateNoTrim(k) ==
  IF ~Truthy(k) THEN [ok |-> FALSE, value |-> <<>>, message |-> "Keyword is required"]
  ELSE IF Len(k.v) > MAX_KEYWORD_LENGTH
    THEN [ok |-> FALSE, value |-> <<>>, message |-> "Keyword must be at most 50 characters"]
  ELSE IF ~KEYWORD_REGEX(k.v)
    THEN [ok |-> FALSE, value |-> <<>>, message |-> "Keyword contains invalid characters"]
  ELSE [ok |-> TRUE, value |-> k.v, message |-> ""]

\* The three checks run on the raw string; trim is applied to what passed.
validate(k) ==
  IF ~Truthy(k) THEN [ok |-> FALSE, value |-> <<>>, message |-> "Keyword is required"]
  ELSE IF Len(k.v) > MAX_KEYWORD_LENGTH
    THEN [ok |-> FALSE, value |-> <<>>, message |-> "Keyword must be at most 50 characters"]
  ELSE IF ~KEYWORD_REGEX(k.v)
    THEN [ok |-> FALSE, value |-> <<>>, message |-> "Keyword contains invalid characters"]
  ELSE [ok |-> TRUE, value |-> trim(k.v), message |-> ""]

------------------------------------------------------------------------------
(* AmazonUrlBuilder.build *)

\* encodeURIComponent leaves A-Z a-z 0-9 - _ . ! ~ * ' ( ) alone and writes
\* every other character as %XX (the characters below are all one byte).
Unreserved == WordChars \cup {"-", ".", "!", "~", "*", "'", "(", ")"}

\* Faulty variant of PercentCode: a space written as "+", as form encoding
\* does.
PercentCodeForm(c) ==
  CASE c = " " -> <<"+">>
    [] c = "\t" -> <<"%", "0", "9">>
    [] c = "\n" -> <<"%", "0", "A">>
    [] c = "\r" -> <<"%", "0", "D">>
    [] c = "\f" -> <<"%", "0", "C">>
    [] c = "@" -> <<"%", "4", "0">>
    [] OTHER -> <<"%", "3", "F">>

PercentCode(c) ==
  CASE c = " " -> <<"%", "2", "0">>
    [] c = "\t" -> <<"%", "0", "9">>
    [] c = "\n" -> <<"%", "0", "A">>
    [] c = "\r" -> <<"%", "0", "D">>
    [] c = "\f" -> <<"%", "0", "C">>
    [] c = "@" -> <<"%", "4", "0">>
    [] OTHER -> <<"%", "3", "F">>

RECURSIVE encodeURIComponent(_)
encodeURIComponent(s) ==
  IF Len(s) = 0 THEN <<>>
  ELSE (IF s[1] \in Unreserved THEN <<s[1]>> ELSE PercentCode(s[1]))
       \o encodeURIComponent(Tail(s))

\* decodeURIComponent, which the receiver of the URL applies to the value of
\* k: %XX is the character with code XX, in hexadecimal; anything else stands
\* for itself; a % not followed by two hexadecimal digits is a URIError.
\* fromCharCode names the characters of the codes written here and gives one
\* stand-in for every other code.
HexDigits ==
  <<"0", "1", "2", "3", "4", "5", "6", "7", "8", "9", "A", "B", "C", "D", "E", "F">>
IsHex(c) == \E i \in 1..16 : HexDigits[i] = c
HexVal(c) == (CHOOSE i \in 1..16 : HexDigits[i] = c) - 1
fromCharCode(n) ==
  CASE n = 9 -> "\t"
    [] n = 10 -> "\n"
    [] n = 12 -> "\f"
    [] n = 13 -> "\r"
    [] n = 32 -> " "
    [] n = 37 -> "%"
    [] n = 43 -> "+"
    [] n = 63 -> "?"
    [] n = 64 -> "@"
    [] OTHER -> "\\u"

RECURSIVE decodeURIComponent(_)
decodeURIComponent(s) ==
  IF Len(s) = 0 THEN Str(<<>>)
  ELSE IF s[1] = "%"
    THEN IF Len(s) >= 3 /\ IsHex(s[2]) /\ IsHex(s[3])
           THEN LET rest == decodeURIComponent(SubSeq(s, 4, Len(s)))
                IN IF rest.t = "string"
                     THEN Str(<<fromCharCode(16 * HexVal(s[2]) + HexVal(s[3]))>> \o rest.v)
                     ELSE rest
           ELSE Thrown("URIError", "URI malformed")
  ELSE LET rest == decodeURIComponent(Tail(s))
       IN IF rest.t = "string" THEN Str(<<s[1]>> \o rest.v) ELSE rest

build(k) == [base |-> "https://www.amazon.com/s?k=", k |-> encodeURIComponent(k)]
NoUrl == [base |-> "", k |-> <<>>]

------------------------------------------------------------------------------
(* AmazonHtmlParser.  A document is the sequence, in document order, of its   *)
(* [data-component-type="s-search-result"] elements; an element is a record   *)
(* of what each of the four selectors finds in it: Null when nothing matches, *)
(* Str(text) for the textContent (the src, for img.s-image) otherwise.        *)

Digits == <<"0", "1", "2", "3", "4", "5", "6", "7", "8", "9">>
DigitSet == {Digits[i] : i \in 1..10}
DigitVal(c) == (CHOOSE i \in 1..10 : Digits[i] = c) - 1

Num(w, f) == [t |-> "number", w |-> w, f |-> f]
NaN == [t |-> "NaN"]

RECURSIVE SelectDigits(_)
\* text.replace(/[^\d]/g, '')
SelectDigits(s) ==
  IF Len(s) = 0 THEN <<>>
  ELSE (IF s[1] \in DigitSet THEN <<s[1]>> ELSE <<>>) \o SelectDigits(Tail(s))

RECURSIVE DecimalValue(_)
DecimalValue(s) ==
  IF Len(s) = 0 THEN 0
  ELSE 10 * DecimalValue(SubSeq(s, 1, Len(s) - 1)) + DigitVal(s[Len(s)])

RECURSIVE DigitPrefix(_)
DigitPrefix(s) ==
  IF Len(s) = 0 \/ s[1] \notin DigitSet THEN <<>>
  ELSE <<s[1]>> \o DigitPrefix(Tail(s))

RECURSIVE DropTrailingZeros(_)
DropTrailingZeros(s) ==
  IF Len(s) = 0 \/ s[Len(s)] # "0" THEN s
  ELSE DropTrailingZeros(SubSeq(s, 1, Len(s) - 1))

\* parseInt(text, 10) of a non-empty string of digits
parseInt(s) == Num(DecimalValue(s), <<>>)

\* parseFloat of a string of digits and dots: the longest prefix of the form
\* digits [. digits]; NaN when that prefix holds no digit.
parseFloat(s) ==
  LET whole == DigitPrefix(s)
      rest == SubSeq(s, Len(whole) + 1, Len(s))
      frac == IF Len(rest) > 0 /\ rest[1] = "." THEN DigitPrefix(Tail(rest)) ELSE <<>>
  IN IF Len(whole) = 0 /\ Len(frac) = 0 THEN NaN
     ELSE Num(DecimalValue(whole), DropTrailingZeros(frac))

\* The capture of text.match(/([0-9.]+)\s+out of/): the first maximal run of
\* digits and dots that is followed by white space and then "out of".
OutOf == <<"o", "u", "t", " ", "o", "f">>
RatingChars == DigitSet \cup {"."}

RECURSIVE SkipWhiteSpace(_, _)
SkipWhiteSpace(s, i) ==
  IF i <= Len(s) /\ s[i] \in WhiteSpace THEN SkipWhiteSpace(s, i + 1) ELSE i

RECURSIVE RunEnd(_, _)
RunEnd(s, i) ==
  IF i <= Len(s) /\ s[i] \in RatingChars THEN RunEnd(s, i + 1) ELSE i

MatchesAt(s, i) ==
  /\ s[i] \in RatingChars
  /\ LET j == RunEnd(s, i)
         k == SkipWhiteSpace(s, j)
     IN /\ k > j
        /\ k + Len(OutOf) - 1 <= Len(s)
        /\ SubSeq(s, k, k + Len(OutOf) - 1) = OutOf

ratingMatch(s) ==
  LET starts == {i \in 1..Len(s) : MatchesAt(s, i)}
  IN IF starts = {} THEN Null
     ELSE LET i == CHOOSE i \in starts : \A j \in starts : i <= j
          IN Str(SubSeq(s, i, RunEnd(s, i) - 1))

getTitle(item) ==
  IF item.h2span = Null THEN Null
  ELSE LET text == trim(item.h2span.v)
       IN IF Truthy(Str(text)) THEN Str(text) ELSE Null

getRating(item) ==
  LET text == IF item.iconAlt = Null THEN <<>> ELSE item.iconAlt.v
      match == ratingMatch(text)
  IN IF Truthy(match) THEN parseFloat(match.v) ELSE Null

getReviews(item) ==
  IF item.ratings = Null THEN Null
  ELSE LET text == SelectDigits(item.ratings.v)
       IN IF Truthy(Str(text)) THEN parseInt(text) ELSE Null

getImage(item) ==
  IF item.img = Null THEN Null
  ELSE IF Truthy(item.img) THEN item.img ELSE Null

\* The object literal built for one item
extract(item) ==
  [title |-> getTitle(item), rating |-> getRating(item),
   reviews |-> getReviews(item), image |-> getImage(item)]

\* Faulty variant of parse: every matching item is returned.
parseNoSlice(doc) == Arr([i \in 1..Len(doc) |-> extract(doc[i])])

\* The document new JSDOM(html) builds: html's elements, and the empty
\* document when html is undefined (the constructor's default argument).
documentOf(h) == IF h = Undefined THEN <<>> ELSE h.v

parse(doc) ==
  LET items == SubSeq(doc, 1, Min(Len(doc), sliceEnd))
  IN Arr([i \in 1..Len(items) |-> extract(items[i])])

------------------------------------------------------------------------------
(* Cache *)

ttlMs == CACHE_TTL_MS

\* Faulty variants of Expired: the boundary instant counted as expired, and
\* the comparison turned around.
ExpiredInclusive(cached, t) == cached.expiry <= t

ExpiredInverted(cached, t) == cached.expiry > t

\* cached.expiry < Date.now()
Expired(cached, t) == cached.expiry < t

\* Faulty variant of Cache.get: a hit renews the expiry of the entry.
CacheGetSliding(st, key, t) ==
  IF key \notin DOMAIN st THEN [ret |-> Null, store |-> st]
  ELSE IF Expired(st[key], t)
    THEN [ret |-> Null, store |-> [k \in DOMAIN st \ {key} |-> st[k]]]
  ELSE [ret |-> st[key].value,
        store |-> [st EXCEPT ![key] = [value |-> st[key].value, expiry |-> t + ttlMs]]]

\* Cache.get: the value returned and the store it leaves
CacheGet(st, key, t) ==
  IF key \notin DOMAIN st THEN [ret |-> Null, store |-> st]
  ELSE IF Expired(st[key], t)
    THEN [ret |-> Null, store |-> [k \in DOMAIN st \ {key} |-> st[k]]]
  ELSE [ret |-> st[key].value, store |-> st]

\* Faulty variant of Cache.set: an existing entry is kept.
CacheSetKeepFirst(st, key, value, t) ==
  [k \in DOMAIN st \cup {key} |->
     IF k \in DOMAIN st THEN st[k] ELSE [value |-> value, expiry |-> t + ttlMs]]

\* Faulty variant of Cache.set: the store is emptied before the entry is put.
CacheSetOnlyKey(st, key, value, t) ==
  [k \in {key} |-> [value |-> value, expiry |-> t + ttlMs]]

\* Cache.set
CacheSet(st, key, value, t) ==
  [k \in DOMAIN st \cup {key} |->
     IF k = key THEN [value |-> value, expiry |-> t + ttlMs] ELSE st[k]]

------------------------------------------------------------------------------
(* AmazonHttpClient.fetchHtml *)

\* What one HTTP exchange can bring back: a response (status, whether it
\* carries a Location header, body) or a transport error without a response
\* (connection failure, the timeout of 10000 ms, a body over the
\* maxContentLength of 2,000,000 bytes).
Response(status, location, data) ==
  [hasResponse |-> TRUE, status |-> status, location |-> location,
   data |-> data, code |-> ""]
TransportError(code) ==
  [hasResponse |-> FALSE, status |-> 0, location |-> FALSE, data |-> <<>>,
   code |-> code]

\* validateStatus: (status) => status >= 200 && status < 400
validateStatus(status) == status >= 200 /\ status < 400

\* axios.get on one HTTP exchange r, with n redirects already followed:
\* a 3xx response carrying a Location is followed while n < maxRedirects and
\* is an error without a response after that; any other response resolves
\* when validateStatus accepts its status and rejects with err.response
\* otherwise; a transport error rejects without err.response.
axiosSettle(r, n) ==
  IF r.hasResponse /\ r.status >= 300 /\ r.status < 400 /\ r.location
    THEN IF n < maxRedirects
           THEN [kind |-> "follow", status |-> r.status, data |-> <<>>]
           ELSE [kind |-> "reject", status |-> 0, data |-> <<>>]
  ELSE IF r.hasResponse /\ validateStatus(r.status)
    THEN [kind |-> "resolve", status |-> r.status, data |-> r.data]
  ELSE [kind |-> "reject", status |-> IF r.hasResponse THEN r.status ELSE 0,
        data |-> <<>>]

\* The loop condition of fetchHtml
loopGuard(att) == att <= maxRetries

\* Faulty variants of fetchHtmlCatch: every error status retried, a backoff
\* that does not grow, a 503 that never throws, and a retry budget short by
\* one.
fetchHtmlCatchRetryAll(status, att) ==
  IF status # 0 /\ status >= 300 /\ status < 400
    THEN [pc |-> "Failed", attempt |-> att, delay |-> 0,
          error |-> Thrown("Error", "Redirect blocked")]
  ELSE IF status # 0
    THEN IF att + 1 > maxRetries
           THEN [pc |-> "Failed", attempt |-> att + 1, delay |-> 0,
                 error |-> Thrown("Error", "Failed after retries")]
           ELSE [pc |-> "RetryWait", attempt |-> att + 1,
                 delay |-> retryDelay * (att + 1), error |-> NoError]
  ELSE [pc |-> "Failed", attempt |-> att, delay |-> 0,
        error |-> Thrown("Error", "Failed to fetch HTML")]

fetchHtmlCatchFlatDelay(status, att) ==
  IF status # 0 /\ status >= 300 /\ status < 400
    THEN [pc |-> "Failed", attempt |-> att, delay |-> 0,
          error |-> Thrown("Error", "Redirect blocked")]
  ELSE IF status = 503
    THEN IF att + 1 > maxRetries
           THEN [pc |-> "Failed", attempt |-> att + 1, delay |-> 0,
                 error |-> Thrown("Error", "Failed after retries")]
           ELSE [pc |-> "RetryWait", attempt |-> att + 1,
                 delay |-> retryDelay, error |-> NoError]
  ELSE [pc |-> "Failed", attempt |-> att, delay |-> 0,
        error |-> Thrown("Error", "Failed to fetch HTML")]

fetchHtmlCatchNoThrow(status, att) ==
  IF status # 0 /\ status >= 300 /\ status < 400
    THEN [pc |-> "Failed", attempt |-> att, delay |-> 0,
          error |-> Thrown("Error", "Redirect blocked")]
  ELSE IF status = 503
    THEN [pc |-> "RetryWait", attempt |-> att + 1,
          delay |-> retryDelay * (att + 1), error |-> NoError]
  ELSE [pc |-> "Failed", attempt |-> att, delay |-> 0,
        error |-> Thrown("Error", "Failed to fetch HTML")]

fetchHtmlCatchOffByOne(status, att) ==
  IF status # 0 /\ status >= 300 /\ status < 400
    THEN [pc |-> "Failed", attempt |-> att, delay |-> 0,
          error |-> Thrown("Error", "Redirect blocked")]
  ELSE IF status = 503
    THEN IF att + 1 >= maxRetries
           THEN [pc |-> "Failed", attempt |-> att + 1, delay |-> 0,
                 error |-> Thrown("Error", "Failed after retries")]
           ELSE [pc |-> "RetryWait", attempt |-> att + 1,
                 delay |-> retryDelay * (att + 1), error |-> NoError]
  ELSE [pc |-> "Failed", attempt |-> att, delay |-> 0,
        error |-> Thrown("Error", "Failed to fetch HTML")]

\* The catch block of fetchHtml, for err.response?.status = status (0 when
\* there is no response) and the local attempt = att: what the call does next.
fetchHtmlCatch(status, att) ==
  IF status # 0 /\ status >= 300 /\ status < 400
    THEN [pc |-> "Failed", attempt |-> att, delay |-> 0,
          error |-> Thrown("Error", "Redirect blocked")]
  ELSE IF status = 503
    THEN IF att + 1 > maxRetries
           THEN [pc |-> "Failed", attempt |-> att + 1, delay |-> 0,
                 error |-> Thrown("Error", "Failed after retries")]
           ELSE [pc |-> "RetryWait", attempt |-> att + 1,
                 delay |-> retryDelay * (att + 1), error |-> NoError]
  ELSE [pc |-> "Failed", attempt |-> att, delay |-> 0,
        error |-> Thrown("Error", "Failed to fetch HTML")]

------------------------------------------------------------------------------
(* AmazonScraperService.scrape, up to its await: validate, cache lookup,    *)
(* build the url and enter fetchHtml.                                        *)

\* Faulty variant of scrapeStart: the cache looked up with the trimmed raw
\* keyword before it is validated.
scrapeStartLookupFirst(st, k, t) ==
  LET raw == IF k.t = "string" THEN trim(k.v) ELSE <<>>
      g == CacheGet(st, raw, t)
      v == validate(k)
  IN IF ~v.ok
       THEN [pc |-> "done", lookups |-> 1, store |-> g.store, validatedKeyword |-> Undefined,
             url |-> NoUrl, result |-> Undefined,
             error |-> Thrown("ValidationError", v.message)]
     ELSE IF Truthy(g.ret)
       THEN [pc |-> "done", lookups |-> 1, store |-> g.store, validatedKeyword |-> Str(v.value),
             url |-> NoUrl, result |-> g.ret, error |-> NoError]
     ELSE [pc |-> "Attempting", lookups |-> 1, store |-> g.store,
           validatedKeyword |-> Str(v.value), url |-> build(v.value),
           result |-> Undefined, error |-> NoError]

\* What the synchronous part of scrape(k) does with the store st at time t.
scrapeStart(st, k, t) ==
  LET v == validate(k)
  IN IF ~v.ok
       THEN [pc |-> "done", lookups |-> 0, store |-> st, validatedKeyword |-> Undefined,
             url |-> NoUrl, result |-> Undefined,
             error |-> Thrown("ValidationError", v.message)]
     ELSE LET g == CacheGet(st, v.value, t)
          IN IF Truthy(g.ret)
               THEN [pc |-> "done", lookups |-> 1, store |-> g.store,
                     validatedKeyword |-> Str(v.value), url |-> NoUrl,
                     result |-> g.ret, error |-> NoError]
             ELSE [pc |-> "Attempting", lookups |-> 1, store |-> g.store,
                   validatedKeyword |-> Str(v.value), url |-> build(v.value),
                   result |-> Undefined, error |-> NoError]

------------------------------------------------------------------------------
(* ScrapeRouter.handleScrape and errorHandler *)

NoQuery == [t |-> "none"]
NoResponse == [status |-> 0, body |-> [none |-> TRUE]]

RECURSIVE Join(_)
\* Array.prototype.join(','), which String(array) applies
Join(xs) ==
  IF Len(xs) = 0 THEN <<>>
  ELSE IF Len(xs) = 1 THEN xs[1].v
  ELSE xs[1].v \o <<",">> \o Join(Tail(xs))

\* String(x) of a string or an array of strings
StringOf(x) == IF x.t = "array" THEN Join(x.v) ELSE x.v

\* String(req.query.keyword || '').trim()
handleScrapeKeyword(q) == trim(StringOf(IF Truthy(q) THEN q ELSE Str(<<>>)))

\* Faulty variant of errorHandler: the message of the error sent to the caller.
errorHandlerLeaky(err) ==
  IF err.name = "ValidationError"
    THEN [status |-> 400, body |-> [error |-> err.message]]
  ELSE [status |-> 503, body |-> [error |-> err.message]]

\* errorHandler(err, req, res, next)
errorHandler(err) ==
  IF err.name = "ValidationError"
    THEN [status |-> 400, body |-> [error |-> err.message]]
  ELSE [status |-> 503, body |-> [error |-> "Internal server error"]]

\* What handleScrape sends once scrape has settled with results, or with err
\* thrown; results.length of a missing result is a TypeError.
handleScrapeReply(kw, results, err) ==
  IF err # NoError THEN errorHandler(err)
  ELSE IF results.t # "array"
    THEN errorHandler(Thrown("TypeError", "Cannot read properties of undefined"))
  ELSE [status |-> 200,
        body |-> [keyword |-> kw, count |-> Len(results.v), results |-> results]]

------------------------------------------------------------------------------
(* Inputs *)

\* Documents the upstream can serve
Item1 == [h2span |-> Str(<<"T">>), iconAlt |-> Null, ratings |-> Null, img |-> Null]
Docs == {<<>>, <<Item1>>}

\* The text of a rating element: a run of characters, a gap, "out of 5"
RatingText(run, gap) == run \o gap \o OutOf \o <<" ", "5">>

\* Sub-elements of a result item, each absent (Null) or with its text
TitleEls ==
  {Null, Str(<<>>), Str(<<" ">>), Str(<<"T">>), Str(<<" ", "T", " ">>)}
RatingEls ==
  {Null, Str(<<>>), Str(<<"n", "e", "w">>),
   Str(RatingText(<<"4", ".", "5">>, <<" ">>)),
   Str(RatingText(<<"4", ".", "5", "0">>, <<" ", " ">>)),
   Str(RatingText(<<"5">>, <<" ">>)),
   Str(RatingText(<<"0">>, <<" ">>)),
   Str(RatingText(<<".", "5">>, <<" ">>)),
   Str(RatingText(<<"4", ".", "5">>, <<>>)),
   Str(RatingText(<<"4", ".", "5", ".", "6">>, <<" ">>)),
   Str(RatingText(<<"x", "3">>, <<" ">>)),
   Str(RatingText(<<".">>, <<" ">>)),
   Str(RatingText(<<"9", ".", "5">>, <<" ">>)),
   Str(RatingText(<<"4", "5">>, <<" ">>))}
ReviewEls ==
  {Null, Str(<<>>), Str(<<"r", "a", "t", "i", "n", "g", "s">>),
   Str(<<"1", "2">>), Str(<<"0">>),
   Str(<<"1", ",", "2", "3", "4", " ", "r", "a", "t", "i", "n", "g", "s">>)}
ImageEls == {Null, Str(<<>>), Str(<<"u">>)}

Items == [h2span : TitleEls, iconAlt : RatingEls, ratings : ReviewEls, img : ImageEls]

\* Pages of up to MaxItems result items, drawn in turn from three items that
\* differ in every field
ItemPool ==
  <<[h2span |-> Str(<<"a">>), iconAlt |-> Str(RatingText(<<"1">>, <<" ">>)),
     ratings |-> Str(<<"1">>), img |-> Str(<<"u">>)],
    [h2span |-> Str(<<"b">>), iconAlt |-> Str(RatingText(<<"2">>, <<" ">>)),
     ratings |-> Str(<<"2">>), img |-> Str(<<"v">>)],
    [h2span |-> Str(<<"c">>), iconAlt |-> Null, ratings |-> Null, img |-> Null]>>
Page(n, a, b) == [i \in 1..n |-> ItemPool[((a * i + b) % Len(ItemPool)) + 1]]
Pages == {Page(n, a, b) : n \in 0..MaxItems, a \in 0..2, b \in 0..2}

\* Documents given to parse on its own: the pages, and every single item
ParseDocs == Pages \cup {<<item>> : item \in Items}

\* HTTP exchanges: success, a 3xx without Location, a redirect, client and
\* server errors, and the three transport failures.
CoreResponses ==
  {Response(200, FALSE, d) : d \in Docs} \cup {Response(404, FALSE, <<>>)}
Responses ==
  CoreResponses
    \cup {Response(503, FALSE, <<>>), Response(302, TRUE, <<>>),
          Response(304, FALSE, <<>>), Response(500, FALSE, <<>>)}
    \cup {TransportError(c) : c \in {"ECONNRESET", "ECONNABORTED", "ERR_BAD_RESPONSE"}}

\* Raw strings: every string over Alphabet up to MaxLen characters, and each
\* of them stretched with word characters to the lengths around the limit.
Alphabet == {"a", " ", "-", "@"}
Strings == UNION {[1..n -> Alphabet] : n \in 0..MaxLen}
Stretch(s, n) ==
  IF Len(s) = 0 THEN [i \in 1..n |-> "a"]
  ELSE <<s[1]>> \o [i \in 1..(n - Len(s)) |-> "a"] \o Tail(s)
RawInputs ==
  {Undefined, Null}
    \cup {Str(s) : s \in Strings}
    \cup {Str(Stretch(s, n)) : s \in Strings,
          n \in {MAX_KEYWORD_LENGTH - 1, MAX_KEYWORD_LENGTH, MAX_KEYWORD_LENGTH + 1}}

\* The keywords validate returns, over an alphabet with each kind of
\* character a keyword can hold
KeywordAlphabet == {"a", "_", "2", "0", "-", " ", "\t"}
KeywordStrings == UNION {[1..n -> KeywordAlphabet] : n \in 0..(MaxLen + 1)}
ValidatedKeywords ==
  {validate(Str(s)).value : s \in {x \in KeywordStrings : validate(Str(x)).ok}}

\* The raw keywords scrape is called with
ScrapeInputs ==
  {Undefined, Str(<<"a">>), Str(<<" ", "a">>), Str(<<" ">>), Str(<<"a", "@">>),
   Str(Stretch(<<>>, MAX_KEYWORD_LENGTH + 1))}

\* The raw keywords of the calls whose fetch is followed exchange by exchange
FetchInputs == {Str(<<"a">>), Str(<<"a", "@">>)}

\* The values of req.query.keyword: absent, strings, and the arrays a repeated
\* parameter gives
QueryInputs ==
  {Undefined, Str(<<>>), Str(<<"a">>), Str(<<" ", "a", " ">>), Str(<<" ">>),
   Str(<<"a", "@">>), Arr(<<>>), Arr(<<Str(<<"a">>)>>),
   Arr(<<Str(<<"a">>), Str(<<"b">>)>>)}

\* Clock advances
TickSteps == {1, CACHE_TTL_MS}

------------------------------------------------------------------------------
(* State *)

NotRun == [ok |-> FALSE, value |-> <<>>, message |-> "not run"]

Init ==
  /\ now = 0
  /\ ticks = 0
  /\ store = <<>>
  /\ calls = 0
  /\ fetchCount = 0
  /\ lookups = 0
  /\ storedAt = <<>>
  /\ pc = [p \in Procs |-> "idle"]
  /\ keyword = [p \in Procs |-> Undefined]
  /\ validatedKeyword = [p \in Procs |-> Undefined]
  /\ url = [p \in Procs |-> NoUrl]
  /\ attempt = [p \in Procs |-> 0]
  /\ redirects = [p \in Procs |-> 0]
  /\ wakeAt = [p \in Procs |-> 0]
  /\ html = [p \in Procs |-> Undefined]
  /\ error = [p \in Procs |-> NoError]
  /\ result = [p \in Procs |-> Undefined]
  /\ gets = [p \in Procs |-> 0]
  /\ requests = [p \in Procs |-> 0]
  /\ waits = [p \in Procs |-> <<>>]
  /\ log = [p \in Procs |-> <<>>]
  /\ vin = Undefined
  /\ vout = NotRun
  /\ query = [p \in Procs |-> NoQuery]
  /\ response = [p \in Procs |-> NoResponse]

------------------------------------------------------------------------------
(* Actions *)

\* scrape(k) is called: everything up to the await of fetchHtml, whose first
\* axios.get is issued in the same synchronous run.
ScrapeCall(p, k) ==
  /\ pc[p] \in {"idle", "done"}
  /\ calls < MaxCalls
  /\ calls' = calls + 1
  /\ LET s == scrapeStart(store, k, now)
     IN /\ pc' = [pc EXCEPT ![p] = s.pc]
        /\ store' = s.store
        /\ storedAt' = [x \in DOMAIN s.store |-> storedAt[x]]
        /\ lookups' = lookups + s.lookups
        /\ validatedKeyword' = [validatedKeyword EXCEPT ![p] = s.validatedKeyword]
        /\ url' = [url EXCEPT ![p] = s.url]
        /\ result' = [result EXCEPT ![p] = s.result]
        /\ error' = [error EXCEPT ![p] = s.error]
        /\ fetchCount' = IF s.pc = "Attempting" THEN fetchCount + 1 ELSE fetchCount
        /\ gets' = [gets EXCEPT ![p] = IF s.pc = "Attempting" THEN 1 ELSE 0]
  /\ keyword' = [keyword EXCEPT ![p] = k]
  /\ attempt' = [attempt EXCEPT ![p] = 0]
  /\ redirects' = [redirects EXCEPT ![p] = 0]
  /\ wakeAt' = [wakeAt EXCEPT ![p] = 0]
  /\ html' = [html EXCEPT ![p] = Undefined]
  /\ requests' = [requests EXCEPT ![p] = 0]
  /\ waits' = [waits EXCEPT ![p] = <<>>]
  /\ log' = [log EXCEPT ![p] = <<>>]
  /\ UNCHANGED <<now, ticks, vin, vout>>

\* scrape(k) called directly
Scrape(p, k) == ScrapeCall(p, k) /\ UNCHANGED <<query, response>>

\* GET /api/scrape?keyword=q arrives: handleScrape trims String(q || '') and
\* calls scrape with it.
HandleScrape(p, q) ==
  /\ pc[p] = "idle" \/ (pc[p] = "done" /\ response[p] # NoResponse)
  /\ ScrapeCall(p, Str(handleScrapeKeyword(q)))
  /\ query' = [query EXCEPT ![p] = q]
  /\ response' = [response EXCEPT ![p] = NoResponse]

\* The scrape call of a request has settled: handleScrape sends the results,
\* or hands the error to errorHandler, which sends the error response.
Reply(p) ==
  /\ pc[p] = "done"
  /\ query[p] # NoQuery
  /\ response[p] = NoResponse
  /\ response' = [response EXCEPT ![p] =
                    handleScrapeReply(keyword[p].v, result[p], error[p])]
  /\ UNCHANGED <<now, ticks, store, calls, fetchCount, lookups, storedAt, pc,
                 keyword, validatedKeyword, url, attempt, redirects, wakeAt, html,
                 error, result, gets, requests, waits, log, vin, vout, query>>

\* One HTTP exchange of the pending axios.get comes back as r.
Respond(p, r) ==
  /\ pc[p] = "Attempting"
  /\ requests' = [requests EXCEPT ![p] = @ + 1]
  /\ LET a == axiosSettle(r, redirects[p])
         c == fetchHtmlCatch(a.status, attempt[p])
     IN CASE a.kind = "follow" ->
               /\ redirects' = [redirects EXCEPT ![p] = @ + 1]
               /\ UNCHANGED <<pc, html, attempt, error, waits, wakeAt, log>>
          [] a.kind = "resolve" ->
               /\ pc' = [pc EXCEPT ![p] = "Success"]
               /\ html' = [html EXCEPT ![p] = Arr(a.data)]
               /\ log' = [log EXCEPT ![p] = Append(@, a.status)]
               /\ UNCHANGED <<redirects, attempt, error, waits, wakeAt>>
          [] a.kind = "reject" ->
               /\ pc' = [pc EXCEPT ![p] = c.pc]
               /\ attempt' = [attempt EXCEPT ![p] = c.attempt]
               /\ error' = [error EXCEPT ![p] = c.error]
               /\ log' = [log EXCEPT ![p] = Append(@, a.status)]
               /\ IF c.pc = "RetryWait"
                    THEN /\ waits' = [waits EXCEPT ![p] = Append(@, c.delay)]
                         /\ wakeAt' = [wakeAt EXCEPT ![p] = now + c.delay]
                    ELSE UNCHANGED <<waits, wakeAt>>
               /\ UNCHANGED <<redirects, html>>
  /\ UNCHANGED <<now, ticks, store, calls, fetchCount, lookups, storedAt,
                 keyword, validatedKeyword, url, result, gets, vin, vout, query, response>>

\* The setTimeout of the backoff fires, no earlier than it is due; the loop
\* condition is evaluated and the next axios.get is issued.
TimerFire(p) ==
  /\ pc[p] = "RetryWait"
  /\ now' = Max(now, wakeAt[p])
  /\ IF loopGuard(attempt[p])
       THEN /\ pc' = [pc EXCEPT ![p] = "Attempting"]
            /\ gets' = [gets EXCEPT ![p] = @ + 1]
            /\ redirects' = [redirects EXCEPT ![p] = 0]
            /\ UNCHANGED html
       ELSE /\ pc' = [pc EXCEPT ![p] = "Success"]
            /\ html' = [html EXCEPT ![p] = Undefined]
            /\ UNCHANGED <<gets, redirects>>
  /\ UNCHANGED <<ticks, store, calls, fetchCount, lookups, storedAt, keyword,
                 validatedKeyword, url, attempt, wakeAt, error, result, requests,
                 waits, log, vin, vout, query, response>>


\* Faulty variant of ScrapeResume: a failed fetch stores an empty result.
ScrapeResumeStoreAlways(p) ==
  /\ pc[p] \in {"Success", "Failed"}
  /\ pc' = [pc EXCEPT ![p] = "done"]
  /\ LET parsed == IF pc[p] = "Success" THEN parse(documentOf(html[p])) ELSE Arr(<<>>)
         key == validatedKeyword[p].v
     IN /\ store' = CacheSet(store, key, parsed, now)
        /\ storedAt' = [x \in DOMAIN store' |->
                          IF x = key THEN now ELSE storedAt[x]]
        /\ IF pc[p] = "Success"
             THEN result' = [result EXCEPT ![p] = parsed]
             ELSE UNCHANGED result
  /\ UNCHANGED <<now, ticks, calls, fetchCount, lookups, keyword, validatedKeyword, url,
                 attempt, redirects, wakeAt, html, error, gets, requests, waits,
                 log, vin, vout, query, response>>

\* fetchHtml has settled and scrape resumes after its await: parse, cache.set
\* and return, or the error propagates to the caller.
ScrapeResume(p) ==
  /\ pc[p] \in {"Success", "Failed"}
  /\ pc' = [pc EXCEPT ![p] = "done"]
  /\ IF pc[p] = "Success"
       THEN LET parsed == parse(documentOf(html[p]))
                key == validatedKeyword[p].v
            IN /\ store' = CacheSet(store, key, parsed, now)
               /\ storedAt' = [x \in DOMAIN store' |->
                                 IF x = key THEN now ELSE storedAt[x]]
               /\ result' = [result EXCEPT ![p] = parsed]
       ELSE UNCHANGED <<store, storedAt, result>>
  /\ UNCHANGED <<now, ticks, calls, fetchCount, lookups, keyword, validatedKeyword, url,
                 attempt, redirects, wakeAt, html, error, gets, requests, waits,
                 log, vin, vout, query, response>>

\* Time passes.
Tick(d) ==
  /\ ticks < MaxTicks
  /\ ticks' = ticks + 1
  /\ now' = now + d
  /\ UNCHANGED <<store, calls, fetchCount, lookups, storedAt, pc, keyword,
                 validatedKeyword, url, attempt, redirects, wakeAt, html, error,
                 result, gets, requests, waits, log, vin, vout, query, response>>

\* build applied to vin, on its own
BuildStep ==
  /\ vout = NotRun
  /\ vout' = build(vin)
  /\ UNCHANGED <<now, ticks, store, calls, fetchCount, lookups, storedAt, pc,
                 keyword, validatedKeyword, url, attempt, redirects, wakeAt, html, error,
                 result, gets, requests, waits, log, vin, query, response>>

\* parse applied to vin, on its own
ParseStep ==
  /\ vout = NotRun
  /\ vout' = parse(vin)
  /\ UNCHANGED <<now, ticks, store, calls, fetchCount, lookups, storedAt, pc,
                 keyword, validatedKeyword, url, attempt, redirects, wakeAt, html, error,
                 result, gets, requests, waits, log, vin, query, response>>

\* validate applied to vin, on its own
ValidateStep ==
  /\ vout = NotRun
  /\ vout' = validate(vin)
  /\ UNCHANGED <<now, ticks, store, calls, fetchCount, lookups, storedAt, pc,
                 keyword, validatedKeyword, url, attempt, redirects, wakeAt, html, error,
                 result, gets, requests, waits, log, vin, query, response>>

------------------------------------------------------------------------------
(* Specifications *)

\* Overlapping scrape calls over the shared cache and the clock; the upstream
\* answers every request with 200 or 404 (SpecFetch covers the other
\* answers).
Next ==
  \/ \E p \in Procs, k \in ScrapeInputs : Scrape(p, k)
  \/ \E p \in Procs, r \in CoreResponses : Respond(p, r)
  \/ \E p \in Procs : ScrapeResume(p)
  \/ \E d \in TickSteps : Tick(d)

Spec == Init /\ [][Next]_vars

\* One scrape call at a time, its fetchHtml followed exchange by exchange
\* against every upstream behaviour: redirects, 503, other error statuses and
\* transport failures.  Time passes only while a backoff timer is pending.
NextFetch ==
  \/ \E k \in FetchInputs : Scrape(1, k)
  \/ \E r \in Responses : Respond(1, r)
  \/ TimerFire(1)
  \/ ScrapeResume(1)

SpecFetch == Init /\ [][NextFetch]_vars

\* SpecFetch with every HTTP exchange coming to an end, a response or an
\* error (the timeout of 10000 ms sees to it), and every timer set firing.
SpecFetchFair ==
  /\ SpecFetch
  /\ WF_vars(\E r \in Responses : Respond(1, r))
  /\ WF_vars(TimerFire(1))

\* Requests to GET /api/scrape, each answered once its scrape call settles.
NextHttp ==
  \/ \E p \in Procs, q \in QueryInputs : HandleScrape(p, q)
  \/ \E p \in Procs, r \in CoreResponses : Respond(p, r)
  \/ \E p \in Procs : ScrapeResume(p)
  \/ \E p \in Procs : Reply(p)

SpecHttp == Init /\ [][NextHttp]_vars

\* validate as a pure function over RawInputs
InitValidate ==
  /\ now = 0
  /\ ticks = 0
  /\ store = <<>>
  /\ calls = 0
  /\ fetchCount = 0
  /\ lookups = 0
  /\ storedAt = <<>>
  /\ pc = [p \in Procs |-> "idle"]
  /\ keyword = [p \in Procs |-> Undefined]
  /\ validatedKeyword = [p \in Procs |-> Undefined]
  /\ url = [p \in Procs |-> NoUrl]
  /\ attempt = [p \in Procs |-> 0]
  /\ redirects = [p \in Procs |-> 0]
  /\ wakeAt = [p \in Procs |-> 0]
  /\ html = [p \in Procs |-> Undefined]
  /\ error = [p \in Procs |-> NoError]
  /\ result = [p \in Procs |-> Undefined]
  /\ gets = [p \in Procs |-> 0]
  /\ requests = [p \in Procs |-> 0]
  /\ waits = [p \in Procs |-> <<>>]
  /\ log = [p \in Procs |-> <<>>]
  /\ vin \in RawInputs
  /\ vout = NotRun
  /\ query = [p \in Procs |-> NoQuery]
  /\ response = [p \in Procs |-> NoResponse]

SpecValidate == InitValidate /\ [][ValidateStep]_vars

\* The state in which one function is applied on its own to an input
InitFunction(inputs) ==
  /\ now = 0
  /\ ticks = 0
  /\ store = <<>>
  /\ calls = 0
  /\ fetchCount = 0
  /\ lookups = 0
  /\ storedAt = <<>>
  /\ pc = [p \in Procs |-> "idle"]
  /\ keyword = [p \in Procs |-> Undefined]
  /\ validatedKeyword = [p \in Procs |-> Undefined]
  /\ url = [p \in Procs |-> NoUrl]
  /\ attempt = [p \in Procs |-> 0]
  /\ redirects = [p \in Procs |-> 0]
  /\ wakeAt = [p \in Procs |-> 0]
  /\ html = [p \in Procs |-> Undefined]
  /\ error = [p \in Procs |-> NoError]
  /\ result = [p \in Procs |-> Undefined]
  /\ gets = [p \in Procs |-> 0]
  /\ requests = [p \in Procs |-> 0]
  /\ waits = [p \in Procs |-> <<>>]
  /\ log = [p \in Procs |-> <<>>]
  /\ vin \in inputs
  /\ vout = NotRun
  /\ query = [p \in Procs |-> NoQuery]
  /\ response = [p \in Procs |-> NoResponse]

\* build as a pure function over the keywords validate returns
InitBuild == InitFunction(ValidatedKeywords)

SpecBuild == InitBuild /\ [][BuildStep]_vars

\* parse as a pure function over ParseDocs
InitParse == InitFunction(ParseDocs)

SpecParse == InitParse /\ [][ParseStep]_vars

------------------------------------------------------------------------------
(* Vocabulary of the properties *)

\* A Keyword of the data model: 1 to 50 characters, each a word character,
\* white space or a hyphen.
AllowedChars == WordChars \cup WhiteSpace \cup {"-"}
IsKeyword(s) ==
  /\ Len(s) >= 1
  /\ Len(s) <= 50
  /\ \A i \in 1..Len(s) : s[i] \in AllowedChars

\* A raw input the validator has to refuse: absent, empty, over 50
\* characters, or holding a character outside the allow-list.
InvalidRaw(k) ==
  \/ k.t # "string"
  \/ Len(k.v) = 0
  \/ Len(k.v) > 50
  \/ \E i \in 1..Len(k.v) : k.v[i] \notin AllowedChars

\* r is s without its leading and trailing white space
IsTrimOf(r, s) ==
  \E i \in 0..Len(s) :
    /\ i + Len(r) <= Len(s)
    /\ r = SubSeq(s, i + 1, i + Len(r))
    /\ \A j \in 1..Len(s) : (j <= i \/ j > i + Len(r)) => s[j] \in WhiteSpace
    /\ Len(r) > 0 => (r[1] \notin WhiteSpace /\ r[Len(r)] \notin WhiteSpace)

\* The key a scrape call with raw keyword k works with
KeyOf(k) == trim(k.v)

\* The call in slot p has settled by returning a ResultSet
Returned(p) == pc[p] = "done" /\ error[p] = NoError

IsServerBusy(status) == status = 503
IsSuccess(status) == status >= 200 /\ status < 400
AllBusy(l) == \A i \in 1..Len(l) : IsServerBusy(l[i])

------------------------------------------------------------------------------
(* C1 *)

\* C1: a scrape(k) that starts while the cache holds an entry for k that is
\* still within its TTL window issues no fetch and returns that entry's
\* ResultSet (the empty one included); the entry is the ResultSet r that the
\* storing call returned, and that call issued exactly one fetchHtml, so the
\* two calls together issue exactly one fetch.
CacheHitProperty ==
  [][/\ \A p \in Procs, k \in ScrapeInputs :
          (/\ Scrape(p, k)
           /\ ~InvalidRaw(k)
           /\ KeyOf(k) \in DOMAIN store
           /\ now < storedAt[KeyOf(k)] + CACHE_TTL_MS)
          => /\ pc'[p] = "done"
             /\ error'[p] = NoError
             /\ result'[p] = store[KeyOf(k)].value
             /\ fetchCount' = fetchCount
             /\ gets'[p] = 0
     /\ \A p \in Procs :
          (ScrapeResume(p) /\ pc[p] = "Success")
          => /\ gets[p] >= 1
             /\ fetchCount' = fetchCount
             /\ store'[validatedKeyword[p].v].value = result'[p]
     /\ fetchCount' # fetchCount
          => /\ fetchCount' = fetchCount + 1
             /\ \E p \in Procs : pc[p] \in {"idle", "done"} /\ pc'[p] = "Attempting"
    ]_vars

\* Two settled calls for one keyword: the first fetched and stored the empty
\* ResultSet, the second was served the same ResultSet from the cache.
CacheHitWitness ==
  \E p, q \in Procs :
    /\ p # q
    /\ Returned(p) /\ Returned(q)
    /\ validatedKeyword[p] = validatedKeyword[q]
    /\ gets[p] = 1 /\ gets[q] = 0
    /\ result[p] = Arr(<<>>) /\ result[q] = result[p]
    /\ fetchCount = 1

------------------------------------------------------------------------------
(* C2 *)

\* C2 as stated: one fetchHtml call issues at most 3 HTTP attempts; when every
\* attempt is answered 503 the call has failed after the 3rd.
AtMostThreeAttempts ==
  \A p \in Procs :
    /\ gets[p] <= 3
    /\ (AllBusy(log[p]) /\ Len(log[p]) = 3) => pc[p] \in {"Failed", "done"}

\* C2 amended: one fetchHtml call issues at most 4 HTTP attempts (the first
\* one and maxRetries = 3 retries); when every attempt is answered 503 the
\* call fails with an error after the 4th attempt, not before, and never
\* issues a 5th.
AtMostFourAttempts ==
  \A p \in Procs :
    /\ gets[p] <= 4
    /\ Len(log[p]) <= gets[p]
    /\ (AllBusy(log[p]) /\ Len(log[p]) = 4)
         => /\ pc[p] \in {"Failed", "done"}
            /\ error[p] = Thrown("Error", "Failed after retries")
            /\ result[p] = Undefined
    /\ (AllBusy(log[p]) /\ Len(log[p]) \in 1..3) => pc[p] \in {"RetryWait", "Attempting"}

\* Four attempts, all answered 503, and the call has failed.
FourAttemptsWitness ==
  \E p \in Procs :
    /\ log[p] = <<503, 503, 503, 503>>
    /\ gets[p] = 4
    /\ pc[p] = "Failed"

------------------------------------------------------------------------------
(* C3 *)

\* The call in slot p has been answered with a 3xx status
SawRedirect(p) ==
  \/ redirects[p] > 0
  \/ \E i \in 1..Len(log[p]) : log[p][i] >= 300 /\ log[p][i] < 400

\* C3: once the upstream has answered a request of the call with a status in
\* 300-399, the call has failed with an error: no redirect was followed (the
\* call sent one request per attempt), no body was returned as success.
RedirectFailsImmediately ==
  \A p \in Procs :
    SawRedirect(p)
      => /\ pc[p] \in {"Failed", "done"}
         /\ error[p].name = "Error"
         /\ requests[p] = gets[p]
         /\ html[p] = Undefined
         /\ result[p] = Undefined

------------------------------------------------------------------------------
(* C4 *)

\* What Cache.get(key) at the present time returns and leaves
GetNow(key) == CacheGet(store, key, now)

\* C4 as stated: get returns null and removes the entry whenever
\* now >= expiresAt, and returns the stored value, leaving the entry in
\* place, whenever now < expiresAt.
GetEvictsAtExpiry ==
  \A key \in DOMAIN store :
    IF now >= store[key].expiry
      THEN GetNow(key).ret = Null /\ key \notin DOMAIN GetNow(key).store
      ELSE GetNow(key).ret = store[key].value /\ GetNow(key).store = store

\* C4 amended: get returns null and removes the entry whenever
\* now > expiresAt; whenever now <= expiresAt (the instant now = expiresAt
\* included) it returns the stored value unchanged and leaves the entry in
\* place.  expiresAt is the time of the set plus 5 minutes.
GetEvictsAfterExpiry ==
  \A key \in DOMAIN store :
    /\ store[key].expiry = storedAt[key] + 300000
    /\ IF now > store[key].expiry
         THEN GetNow(key).ret = Null /\ key \notin DOMAIN GetNow(key).store
         ELSE GetNow(key).ret = store[key].value /\ GetNow(key).store = store

\* A call that started at the very instant now = expiresAt was served from
\* the cache, and the entry is still in place.
GetAtExpiryWitness ==
  \E p \in Procs :
    /\ Returned(p)
    /\ gets[p] = 0
    /\ validatedKeyword[p].v \in DOMAIN store
    /\ now = store[validatedKeyword[p].v].expiry
    /\ result[p] = store[validatedKeyword[p].v].value

------------------------------------------------------------------------------
(* C5 *)

\* C5: every keyword scrape has used as a cache key or placed in a fetched
\* URL is a validated Keyword: 1 to 50 characters, all of them word
\* characters, white space or hyphens; no accepted raw input yields an empty
\* keyword that reaches the cache or the network.
OnlyKeywordsReachCacheAndNetwork ==
  /\ \A key \in DOMAIN store : IsKeyword(key)
  /\ \A p \in Procs :
       validatedKeyword[p] # Undefined
         => /\ IsKeyword(validatedKeyword[p].v)
            /\ url[p] # NoUrl => url[p] = build(validatedKeyword[p].v)

------------------------------------------------------------------------------
(* C6 *)

\* C6: when fetchHtml has resolved after k attempts answered 503 and one
\* answered with a success status, it resolved with a body after exactly k
\* backoff waits, the i-th of i x 1000 ms, and the clock has advanced by at
\* least their sum.
BackoffIsLinear ==
  \A p \in Procs :
    pc[p] = "Success"
      => LET k == Len(log[p]) - 1
         IN /\ k \in 0..3
            /\ \A i \in 1..k : log[p][i] = 503
            /\ IsSuccess(log[p][k + 1])
            /\ html[p] # Undefined
            /\ Len(waits[p]) = k
            /\ \A i \in 1..k : waits[p][i] = i * 1000
            /\ now >= (k * (k + 1) * 1000) \div 2

\* 503, 503, 200: resolved after the two waits of 1000 ms and 2000 ms.
BackoffWitness ==
  \E p \in Procs :
    /\ pc[p] = "Success"
    /\ log[p] = <<503, 503, 200>>
    /\ waits[p] = <<1000, 2000>>

------------------------------------------------------------------------------
(* C7 *)

\* C7: a scrape(k) that starts when more than the TTL (5 minutes) has passed
\* since the entry for k was stored does not get that entry's value from the
\* cache: the entry is dropped and the call issues a new fetch.
ExpiredEntryIsRefetched ==
  [][\A p \in Procs, k \in ScrapeInputs :
       (/\ Scrape(p, k)
        /\ ~InvalidRaw(k)
        /\ KeyOf(k) \in DOMAIN store
        /\ now - storedAt[KeyOf(k)] > 300000)
       => /\ pc'[p] = "Attempting"
          /\ result'[p] = Undefined
          /\ KeyOf(k) \notin DOMAIN store'
          /\ fetchCount' = fetchCount + 1
          /\ gets'[p] = 1
          /\ url'[p] = build(KeyOf(k))
    ]_vars

\* A call started after the TTL of a stored entry had passed and is fetching.
RefetchWitness ==
  \E p \in Procs :
    /\ pc[p] = "Attempting"
    /\ fetchCount = 2
    /\ now > 300000
    /\ validatedKeyword[p].v \notin DOMAIN store
    /\ \E q \in Procs :
         /\ q # p
         /\ Returned(q)
         /\ gets[q] = 1
         /\ validatedKeyword[q] = validatedKeyword[p]

------------------------------------------------------------------------------
(* C8 *)

\* An attempt outcome that is neither a success, nor a redirect, nor a 503:
\* another error status, or no response at all (status 0: network failure,
\* timeout, oversized body, redirect limit).
IsFatal(status) == ~IsSuccess(status) /\ ~IsServerBusy(status)

\* C8: when an attempt of fetchHtml fails with an error status other than 503
\* or without a response, the call fails right there: that attempt is its
\* last, every attempt before it was a 503 that was waited out, and no
\* backoff wait follows it.
FatalFailureIsNotRetried ==
  \A p \in Procs :
    (Len(log[p]) > 0 /\ \E i \in 1..Len(log[p]) : IsFatal(log[p][i]))
      => LET n == Len(log[p])
         IN /\ IsFatal(log[p][n])
            /\ \A i \in 1..(n - 1) : IsServerBusy(log[p][i])
            /\ pc[p] \in {"Failed", "done"}
            /\ error[p] = Thrown("Error", "Failed to fetch HTML")
            /\ gets[p] = n
            /\ Len(waits[p]) = n - 1
            /\ result[p] = Undefined

\* One 503 waited out, then a 404: failed after two attempts and one wait.
FatalFailureWitness ==
  \E p \in Procs :
    /\ log[p] = <<503, 404>>
    /\ pc[p] = "Failed"
    /\ waits[p] = <<1000>>

------------------------------------------------------------------------------
(* C9 *)

\* C9: validate(raw) fails exactly when raw is absent or empty, longer than
\* 50 characters, or holds a character outside the allow-list; otherwise it
\* returns raw without its leading and trailing white space.
ValidateContract ==
  vout # NotRun
    => /\ vout.ok <=> ~InvalidRaw(vin)
       /\ vout.ok => IsTrimOf(vout.value, vin.v)

\* validate accepted a 50-character input and removed white space from it.
ValidateWitness ==
  /\ vout # NotRun
  /\ vout.ok
  /\ Len(vin.v) = 50
  /\ Len(vout.value) = 49

------------------------------------------------------------------------------
(* C10 *)

\* C10: a scrape call whose raw keyword is invalid ends at once with a
\* ValidationError, having made no Cache.get, no Cache.set and no fetch: the
\* cache is unchanged.
InvalidKeywordTouchesNothing ==
  [][\A p \in Procs, k \in ScrapeInputs :
       (Scrape(p, k) /\ InvalidRaw(k))
       => /\ pc'[p] = "done"
          /\ error'[p].name = "ValidationError"
          /\ result'[p] = Undefined
          /\ store' = store
          /\ lookups' = lookups
          /\ fetchCount' = fetchCount
          /\ gets'[p] = 0
          /\ url'[p] = NoUrl
    ]_vars

\* A call with an invalid keyword has ended while the cache held an entry.
InvalidKeywordWitness ==
  \E p \in Procs :
    /\ pc[p] = "done"
    /\ error[p].name = "ValidationError"
    /\ keyword[p] = Str(<<"a", "@">>)
    /\ DOMAIN store # {}
    /\ lookups = 1

------------------------------------------------------------------------------
(* C11 *)

\* C11: every answered request to GET /api/scrape got exactly one of three
\* responses: 200 with the keyword, the count and the ResultSet when scrape
\* returned; 400 with the validation message when scrape threw a
\* ValidationError; 503 with the fixed body {error: "Internal server error"},
\* which carries nothing of the underlying error, for every other failure.
ThreeResponses ==
  \A p \in Procs :
    response[p] # NoResponse
      => /\ pc[p] = "done"
         /\ response[p].status \in {200, 400, 503}
         /\ response[p].status = 200
              <=> (error[p] = NoError /\ ~InvalidRaw(keyword[p]))
         /\ response[p].status = 200
              => response[p].body = [keyword |-> keyword[p].v,
                                     count |-> Len(result[p].v),
                                     results |-> result[p]]
         /\ response[p].status = 400 <=> InvalidRaw(keyword[p])
         /\ response[p].status = 400
              => /\ error[p].name = "ValidationError"
                 /\ response[p].body = [error |-> error[p].message]
         /\ response[p].status = 503
              => /\ error[p].name = "Error"
                 /\ response[p].body = [error |-> "Internal server error"]

\* A request whose fetch failed was answered 503.
ServerErrorWitness ==
  \E p \in Procs :
    /\ response[p].status = 503
    /\ error[p] = Thrown("Error", "Failed to fetch HTML")
    /\ log[p] = <<404>>

------------------------------------------------------------------------------
(* C12 *)

\* C12: when scrape calls for the same keyword overlap and both miss the
\* cache, each issues its own fetch and each stores its own result: the call
\* that completes, with the other one in flight or already completed, leaves
\* under the keyword the one entry holding its own ResultSet, so after both
\* the entry is that of the call that stored last.
OverlapLastStoreWins ==
  [][\A p \in Procs : \A q \in Procs \ {p} :
       (/\ ScrapeResume(p)
        /\ pc[p] = "Success"
        /\ pc[q] \in {"Attempting", "Success", "done"}
        /\ gets[q] >= 1
        /\ validatedKeyword[q] = validatedKeyword[p])
       => LET k == validatedKeyword[p].v
          IN /\ gets[p] >= 1
             /\ fetchCount >= 2
             /\ result'[p] = parse(html[p].v)
             /\ k \in DOMAIN store'
             /\ store'[k] = [value |-> result'[p], expiry |-> now + ttlMs]
             /\ DOMAIN store' = DOMAIN store \cup {k}]_vars

\* Two calls for one keyword both missed with no time passing between them,
\* fetched different pages and completed; the entry holds one of the results.
OverlapWitness ==
  /\ ticks = 0
  /\ pc[1] = "done" /\ pc[2] = "done"
  /\ error[1] = NoError /\ error[2] = NoError
  /\ validatedKeyword[1] = validatedKeyword[2]
  /\ gets[1] = 1 /\ gets[2] = 1
  /\ fetchCount = 2
  /\ result[1] # result[2]
  /\ validatedKeyword[1].v \in DOMAIN store
  /\ store[validatedKeyword[1].v].value \in {result[1], result[2]}

------------------------------------------------------------------------------
(* C13 *)

\* C13: parse returns exactly the records of the first min(n, 20) of the n
\* matching items, in document order, and never more than 20 records.
ParseFirstTwenty ==
  vout # NotRun
    => /\ vout.t = "array"
       /\ Len(vout.v) <= 20
       /\ Len(vout.v) = (IF Len(vin) < 20 THEN Len(vin) ELSE 20)
       /\ \A i \in 1..Len(vout.v) : vout.v[i] = extract(vin[i])

\* A page of more than 20 items, not all alike, was parsed.
ParseOverTwentyWitness ==
  /\ vout # NotRun
  /\ Len(vin) > 20
  /\ Len(vout.v) = 20
  /\ vout.v[1].title # vout.v[2].title
  /\ vin[21] # vin[20]

------------------------------------------------------------------------------
(* C14, C15 *)

\* A run of digits and dots, then white space, then "out of", somewhere in s;
\* with needDigit, the run holds at least one digit.
PatternFound(s, needDigit) ==
  \E i \in 1..Len(s) : \E j \in i..Len(s) : \E k \in (j + 2)..Len(s) :
    /\ \A x \in i..j : s[x] \in DigitSet \cup {"."}
    /\ needDigit => \E x \in i..j : s[x] \in DigitSet
    /\ \A x \in (j + 1)..(k - 1) : s[x] \in WhiteSpace
    /\ k + 5 <= Len(s)
    /\ SubSeq(s, k, k + 5) = <<"o", "u", "t", " ", "o", "f">>

\* The sub-element is missing, or holds nothing a field value can be read from
TitleMissing(item) ==
  item.h2span = Null \/ \A x \in 1..Len(item.h2span.v) : item.h2span.v[x] \in WhiteSpace
RatingMissing(item) ==
  item.iconAlt = Null \/ ~PatternFound(item.iconAlt.v, TRUE)
ReviewsMissing(item) ==
  item.ratings = Null \/ \A x \in 1..Len(item.ratings.v) : item.ratings.v[x] \notin DigitSet
ImageMissing(item) ==
  item.img = Null \/ item.img.v = <<>>

\* The item with every sub-element but one removed
Only(item, field) ==
  [f \in {"h2span", "iconAlt", "ratings", "img"} |->
     IF f = field THEN item[f] ELSE Null]

\* C14: extraction is isolated per field and never throws: parse yields a
\* record for every item; in it exactly the fields whose sub-element is
\* missing or malformed are null, and every other field carries the value
\* read from its own sub-element, whatever the other sub-elements are.
MissingOrMalformedIsNull ==
  vout # NotRun
    => /\ vout.t = "array"
       /\ Len(vout.v) = (IF Len(vin) < 20 THEN Len(vin) ELSE 20)
       /\ \A i \in 1..Len(vout.v) :
            LET item == vin[i]
                rec == vout.v[i]
            IN /\ rec.title = Null <=> TitleMissing(item)
               /\ rec.rating = Null <=> RatingMissing(item)
               /\ rec.reviews = Null <=> ReviewsMissing(item)
               /\ rec.image = Null <=> ImageMissing(item)
               /\ rec.title = extract(Only(item, "h2span")).title
               /\ rec.rating = extract(Only(item, "iconAlt")).rating
               /\ rec.reviews = extract(Only(item, "ratings")).reviews
               /\ rec.image = extract(Only(item, "img")).image
               /\ ~TitleMissing(item) => rec.title.t = "string"
               /\ ~RatingMissing(item) => rec.rating.t = "number"
               /\ ~ReviewsMissing(item) => rec.reviews.t = "number"
               /\ ~ImageMissing(item) => rec.image = item.img

\* A rating between 0.0 and 5.0, or null
RatingInRange(r) ==
  r = Null \/ (r.t = "number" /\ r.w >= 0 /\ (r.w < 5 \/ (r.w = 5 /\ r.f = <<>>)))

\* A non-negative integer, or null
CountInRange(r) == r = Null \/ (r.t = "number" /\ r.w >= 0 /\ r.f = <<>>)

\* C15: in every record parse produces from an item whose rating text matches
\* "<digits and dots> out of", rating is null or a number from 0.0 to 5.0 and
\* reviews is null or a non-negative integer.
RatingAndReviewsInRange ==
  vout # NotRun
    => \A i \in 1..Len(vout.v) :
         (vin[i].iconAlt # Null /\ PatternFound(vin[i].iconAlt.v, FALSE))
           => /\ RatingInRange(vout.v[i].rating)
              /\ CountInRange(vout.v[i].reviews)

------------------------------------------------------------------------------
(* C16 *)

\* s holds t as a contiguous part
Contains(s, t) ==
  \E i \in 1..(Len(s) - Len(t) + 1) : SubSeq(s, i, i + Len(t) - 1) = t

\* C16: for every validated keyword, the URL build returns is the search
\* address followed by a query value that holds no space and no character
\* that ends the value, and that decodes back to the keyword exactly; no
\* other keyword gives the same URL; every space of the keyword is written
\* percent-encoded.
BuildRoundTrip ==
  vout # NotRun
    => /\ vout.base = "https://www.amazon.com/s?k="
       /\ \A i \in 1..Len(vout.k) : vout.k[i] \notin {" ", "&", "#", "=", "?", "+"}
       /\ decodeURIComponent(vout.k) = Str(vin)
       /\ \A other \in ValidatedKeywords : other # vin => build(other) # vout
       /\ Contains(vin, <<" ">>) => Contains(vout.k, <<"%", "2", "0">>)

\* A keyword with a space between digits was built into a URL.
BuildSpaceWitness ==
  /\ vout # NotRun
  /\ vin = <<"2", " ", "0">>
  /\ vout.k = <<"2", "%", "2", "0", "0">>

------------------------------------------------------------------------------
(* C17 *)

\* The keys whose entry a step creates or replaces
Written ==
  {x \in DOMAIN store' : x \notin DOMAIN store \/ store'[x] # store[x]}

\* C17: a cache entry is created or replaced only by the last step of a
\* scrape call whose fetch and parse succeeded, under that call's own key; a
\* scrape call whose fetch failed ends without writing any entry: every entry
\* is as it was, its own key has no new entry, and the caller gets the error
\* and no ResultSet.
OnlySuccessfulScrapeStores ==
  [][/\ \A x \in Written :
          \E p \in Procs :
            /\ ScrapeResume(p)
            /\ pc[p] = "Success"
            /\ error[p] = NoError
            /\ validatedKeyword[p] = Str(x)
            /\ store'[x].value = parse(html[p].v)
            /\ result'[p] = store'[x].value
     /\ \A p \in Procs :
          (ScrapeResume(p) /\ pc[p] = "Failed")
            => /\ store' = store
               /\ result'[p] = Undefined
               /\ error'[p].name = "Error"
               /\ pc'[p] = "done"
    ]_vars

\* A scrape call ended in a fetch error while another key had an entry; its
\* own key has none.
FailedScrapeWitness ==
  \E p \in Procs :
    /\ pc[p] = "done"
    /\ error[p] = Thrown("Error", "Failed to fetch HTML")
    /\ result[p] = Undefined
    /\ validatedKeyword[p].v \notin DOMAIN store
    /\ \E x \in DOMAIN store : x # validatedKeyword[p].v

------------------------------------------------------------------------------
(* C18 *)

\* The keys whose entry a step removes
Removed == {x \in DOMAIN store : x \notin DOMAIN store'}

\* C18: eviction is lazy and per key.  A step removes an entry only as the
\* get(k) of a scrape call for that very key, made after the entry's expiry;
\* a step that removes or writes the entry of one key leaves every other
\* key's entry as it was; a step that only moves the clock changes no entry.
EvictionIsLazyPerKey ==
  [][/\ \A x \in Removed :
          /\ store[x].expiry < now
          /\ \E p \in Procs, k \in ScrapeInputs :
               Scrape(p, k) /\ validatedKeyword'[p] = Str(x)
     /\ Cardinality(Removed \cup Written) <= 1
     /\ \A p \in Procs, k \in ScrapeInputs :
          Scrape(p, k)
            => \A x \in DOMAIN store :
                 Str(x) # validatedKeyword'[p] => (x \in DOMAIN store' /\ store'[x] = store[x])
     /\ \A p \in Procs :
          ScrapeResume(p)
            => \A x \in DOMAIN store :
                 Str(x) # validatedKeyword[p] => (x \in DOMAIN store' /\ store'[x] = store[x])
     /\ now' # now => store' = store
    ]_vars

\* The entry a completed call had stored is gone: a later call for the same
\* key, started after the expiry, removed it with its get and is fetching.
EvictedByGetWitness ==
  \E p \in Procs : \E q \in Procs \ {p} :
    /\ pc[q] = "done" /\ error[q] = NoError /\ gets[q] = 1
    /\ validatedKeyword[q] = validatedKeyword[p]
    /\ pc[p] = "Attempting"
    /\ lookups = 2
    /\ ticks >= 1
    /\ store = <<>>

------------------------------------------------------------------------------
(* C19 *)

\* Every entry of st expires 5 minutes after it was stored, which is no later
\* than 5 minutes from the time t
ExpiryFixed(st, at, t) ==
  \A x \in DOMAIN st :
    /\ st[x].expiry = at[x] + 300000
    /\ st[x].expiry <= t + 300000

\* C19: the expiry of an entry is the time it was stored plus 5 minutes, in
\* every state, so expiresAt <= now + ttl; a scrape call served from the
\* cache leaves the entry as it was, and is served no more than 5 minutes
\* after the entry was stored.
ExpiryIsNeverExtended ==
  [][/\ ExpiryFixed(store, storedAt, now)
     /\ ExpiryFixed(store', storedAt', now')
     /\ \A p \in Procs, k \in ScrapeInputs :
          (Scrape(p, k) /\ pc'[p] = "done" /\ error'[p] = NoError)
            => /\ now - storedAt[KeyOf(k)] <= 300000
               /\ result'[p] = store[KeyOf(k)].value
               /\ store' = store
               /\ storedAt' = storedAt
    ]_vars

\* A call was served from an entry stored earlier, and the entry still
\* expires 5 minutes after it was stored.
LaterHitWitness ==
  \E p \in Procs :
    /\ pc[p] = "done"
    /\ error[p] = NoError
    /\ gets[p] = 0
    /\ validatedKeyword[p].v \in DOMAIN store
    /\ storedAt[validatedKeyword[p].v] < now
    /\ store[validatedKeyword[p].v].expiry = storedAt[validatedKeyword[p].v] + 300000
    /\ store[validatedKeyword[p].v].expiry < now + 300000

------------------------------------------------------------------------------
(* C20 *)

\* fetchHtml has returned a body, or has thrown, and not both
TerminalShape(p) ==
  /\ pc[p] = "Success" => (html[p].t = "array" /\ error[p] = NoError)
  /\ pc[p] = "Failed" => (html[p] = Undefined /\ error[p] # NoError)

\* C20: with every HTTP exchange coming to an end, every fetchHtml call
\* reaches Success, with a body, or Failed, with an error, within 4
\* axios.get calls of at most 6 requests each; it never leaves its loop
\* without a body or an error; once it is in a terminal state it issues no
\* further attempt.
FetchHtmlTerminates ==
  /\ [](\A p \in Procs :
          /\ TerminalShape(p)
          /\ gets[p] <= 4
          /\ requests[p] <= 24)
  /\ [][\A p \in Procs :
          pc[p] \in {"Success", "Failed"}
            => /\ pc'[p] \in {pc[p], "done"}
               /\ gets'[p] = gets[p]
               /\ requests'[p] = requests[p]
               /\ attempt'[p] = attempt[p]]_vars
  /\ \A p \in Procs :
       (pc[p] \in {"Attempting", "RetryWait"}) ~> (pc[p] \in {"Success", "Failed"})

\* A call got its body on the last attempt the loop allows, after a redirect.
LastAttemptSuccessWitness ==
  /\ pc[1] = "Success"
  /\ gets[1] = 4
  /\ attempt[1] = 3
  /\ requests[1] > 4
  /\ html[1].t = "array"

====
